---- MODULE Spec2Model ----
(***************************************************************************)
(* A model of exifer.py (class MetadataEditor): the working file list and  *)
(* its display, the date / time / interval text fields, the mode and       *)
(* sequential toggles, and the batch runner process_files with the two     *)
(* per-file operations modify_file_dates and modify_metadata.              *)
(*                                                                         *)
(* Every event handler is one action.  The operating system, the external  *)
(* metadata tool and the creation-time commands are the environment: each  *)
(* handler draws their outcomes from small sets and records every call it  *)
(* makes, and every dialog it raises, in the variable last.                *)
(*                                                                         *)
(* Dates and times.  A naive datetime is the number of seconds of local    *)
(* wall-clock time counted from the first second of the year MAXYEAR       *)
(* (instead of year 1, so that the values fit TLC's 32-bit integers; the   *)
(* arithmetic is unchanged).  datetime.timestamp() and                     *)
(* datetime.fromtimestamp() shift by the local UTC offset; daylight-saving *)
(* transitions are not modelled.  datetime.fromtimestamp() raises when the *)
(* result is past the last second of year MAXYEAR, as Python's does.       *)
(***************************************************************************)
EXTENDS Integers, Sequences, FiniteSets, TLC

None == "None"

(***************************************************************************)
(* Bounds of the model.                                                    *)
(***************************************************************************)
\* how many paths of PathCatalog exist as regular files
NumPaths == 2
\* longest list a file dialog or a drop delivers in one event
MaxBatch == 2

(***************************************************************************)
(* Strings: a file name is a sequence of characters.                       *)
(***************************************************************************)
\* code point of a character (ord)
Ord(c) == CASE c = "A" -> 65 [] c = "B" -> 66 [] c = "a" -> 97 [] c = "b" -> 98

\* str.lower() on one character
LowerChar(c) == CASE c = "A" -> "a" [] c = "B" -> "b" [] OTHER -> c

\* str.lower()
lower(s) == [i \in 1..Len(s) |-> LowerChar(s[i])]

\* Python's < on two strings: lexicographic by code point, a proper prefix
\* is smaller
RECURSIVE StrLess(_, _)
StrLess(s, t) ==
    IF t = <<>> THEN FALSE
    ELSE IF s = <<>> THEN TRUE
    ELSE IF Ord(Head(s)) # Ord(Head(t)) THEN Ord(Head(s)) < Ord(Head(t))
    ELSE StrLess(Tail(s), Tail(t))

(***************************************************************************)
(* Paths.  A path is a directory and a base name.                          *)
(***************************************************************************)
PathCatalog ==
    << [dir |-> "/x", name |-> <<"B">>],
       [dir |-> "/y", name |-> <<"a">>],
       [dir |-> "/x", name |-> <<"A">>],
       [dir |-> "/y", name |-> <<"a", "b">>],
       [dir |-> "/y", name |-> <<"B">>] >>

\* the regular files of the file system
Paths == {PathCatalog[i] : i \in 1..NumPaths}

\* a directory: a drop can carry it, os.path.isfile rejects it
Folder == [dir |-> "/", name |-> <<"b">>]

\* os.path.isfile
isfile(p) == p \in Paths

\* os.path.basename
basename(p) == p.name

\* the lists a handler can receive: the sequences over S of length 1..MaxBatch
\* (with an empty list, a cancelled dialog, the loops do nothing)
Batches(S) == UNION {[1..n -> S] : n \in 1..MaxBatch}

\* QFileDialog.getOpenFileNames returns existing files, each once
DialogResults == {b \in Batches(Paths) :
                     \A i, j \in 1..Len(b) : i # j => b[i] # b[j]}

\* the urls of a drop: any paths, repeated or not, directories included
DropUrls == Batches(Paths \cup {Folder})

(***************************************************************************)
(* The list model: self.files and the rows of self.file_list.              *)
(***************************************************************************)
RECURSIVE SeqRange(_)
SeqRange(s) == IF s = <<>> THEN {} ELSE {Head(s)} \cup SeqRange(Tail(s))

\* s without its element at index i (del s[i], QListWidget.takeItem)
RemoveAt(s, i) == SubSeq(s, 1, i - 1) \o SubSeq(s, i + 1, Len(s))

\* the body of the loops of select_files and dropEvent, preceded by the
\* faulty variant that forgets the membership test
AppendAlways(st, file_path) ==
    [files |-> Append(st.files, file_path),
     file_list |-> Append(st.file_list, basename(file_path))]

AppendIfNew(st, file_path) ==
    IF file_path \in SeqRange(st.files)
    THEN st
    ELSE [files |-> Append(st.files, file_path),
          file_list |-> Append(st.file_list, basename(file_path))]

\* for file_path in files: ... of select_files
RECURSIVE SelectLoop(_, _)
SelectLoop(st, new) ==
    IF new = <<>> THEN st
    ELSE SelectLoop(AppendIfNew(st, Head(new)), Tail(new))

\* for file_path in files: ... of dropEvent
RECURSIVE DropLoop(_, _)
DropLoop(st, new) ==
    IF new = <<>> THEN st
    ELSE DropLoop(IF isfile(Head(new)) THEN AppendIfNew(st, Head(new)) ELSE st,
                  Tail(new))

\* index of item x in a sequence without repetitions (QListWidget.row)
RowOf(s, x) == CHOOSE i \in 1..Len(s) : s[i] = x

\* One iteration of remove_selected (preceded by the faulty variant that
\* forgets del self.files[row]).  The widget's items have an identity;
\* st.items lists, row by row, the identity of each remaining item (the row
\* it had when the handler started).
TakeItemOnly(st, item) ==
    LET row == RowOf(st.items, item)
    IN  [st EXCEPT !.items = RemoveAt(@, row), !.file_list = RemoveAt(@, row)]

TakeItemAndDelete(st, item) ==
    LET row == RowOf(st.items, item)
    IN  [items |-> RemoveAt(st.items, row),
         file_list |-> RemoveAt(st.file_list, row),
         files |-> RemoveAt(st.files, row)]

\* for item in selected_items: ... of remove_selected
RECURSIVE RemoveLoop(_, _)
RemoveLoop(st, selected_items) ==
    IF selected_items = <<>> THEN st
    ELSE RemoveLoop(TakeItemAndDelete(st, Head(selected_items)),
                    Tail(selected_items))

\* clear_files
clear_files(st) == [files |-> <<>>, file_list |-> <<>>]


(***************************************************************************)
(* Text fields and their parsing.                                          *)
(*                                                                         *)
(* The date text "Y-M-D" and the time text "H:M:S" are the sequences of    *)
(* the numbers between their separators; a text with another number of     *)
(* fields does not match the format.  The interval text is a sequence of   *)
(* characters.                                                             *)
(***************************************************************************)
MINYEAR == 1
MAXYEAR == 9999
\* local time minus UTC, in seconds
UtcOffset == 3600
\* the interval used when the interval text is not an integer
DefaultInterval == 60

\* The texts the user can type.  The dates lie a few days before the end of
\* year MAXYEAR, so that an interval of two days brings the second or the
\* third file of a sequential run beyond datetime.max, as a long interval
\* does from any date.
ValidDateTexts == {<<9999, 12, 29>>, <<9999, 12, 30>>}
DateTexts == ValidDateTexts \cup {<<9999, 2, 30>>}
ValidTimeTexts == {<<23, 59, 30>>}
TimeTexts == ValidTimeTexts \cup {<<24, 0, 0>>}
IntegerIntervalTexts == {<<"6", "0">>, <<"1", "7", "2", "8", "0", "0">>}
IntervalTexts == IntegerIntervalTexts \cup {<<"x">>}

IsLeap(y) == y % 4 = 0 /\ (y % 100 # 0 \/ y % 400 = 0)

DaysInMonth(y, m) ==
    IF m = 2 THEN (IF IsLeap(y) THEN 29 ELSE 28)
    ELSE IF m \in {4, 6, 9, 11} THEN 30 ELSE 31

RECURSIVE DaysBeforeMonth(_, _)
DaysBeforeMonth(y, m) ==
    IF m = 1 THEN 0 ELSE DaysBeforeMonth(y, m - 1) + DaysInMonth(y, m - 1)

\* days before January 1st of year y, counted from year 1
DaysBeforeYear(y) ==
    365 * (y - 1) + ((y - 1) \div 4) - ((y - 1) \div 100) + ((y - 1) \div 400)

\* the naive datetime y-m-d H:M:S, in seconds from the start of year MAXYEAR
DatetimeOf(y, m, d, H, M, S) ==
    ((DaysBeforeYear(y) - DaysBeforeYear(MAXYEAR)) + DaysBeforeMonth(y, m) + (d - 1))
        * 86400 + H * 3600 + M * 60 + S

\* datetime.max
DatetimeMax == DatetimeOf(MAXYEAR, 12, 31, 23, 59, 59)

Raised == [ok |-> FALSE, value |-> 0]
Returned(v) == [ok |-> TRUE, value |-> v]

\* datetime.strptime(f"{date_str} {time_str}", "%Y-%m-%d %H:%M:%S"), preceded
\* by the faulty variant that clamps out-of-range fields instead of raising
Clamp(x, lo, hi) == IF x < lo THEN lo ELSE IF x > hi THEN hi ELSE x

strptimeLenient(date_str, time_str) ==
    IF Len(date_str) # 3 \/ Len(time_str) # 3 THEN Raised
    ELSE LET y == Clamp(date_str[1], MINYEAR, MAXYEAR)
             m == Clamp(date_str[2], 1, 12)
         IN  Returned(DatetimeOf(y, m, Clamp(date_str[3], 1, DaysInMonth(y, m)),
                                 Clamp(time_str[1], 0, 23), Clamp(time_str[2], 0, 59),
                                 Clamp(time_str[3], 0, 59)))

strptime(date_str, time_str) ==
    IF Len(date_str) # 3 \/ Len(time_str) # 3 THEN Raised
    ELSE IF /\ date_str[1] \in MINYEAR..MAXYEAR
            /\ date_str[2] \in 1..12
            /\ date_str[3] \in 1..DaysInMonth(date_str[1], date_str[2])
            /\ time_str[1] \in 0..23
            /\ time_str[2] \in 0..59
            /\ time_str[3] \in 0..59
         THEN Returned(DatetimeOf(date_str[1], date_str[2], date_str[3],
                                  time_str[1], time_str[2], time_str[3]))
         ELSE Raised

\* datetime.timestamp() of a naive datetime
timestamp(dt) == dt - UtcOffset

\* datetime.fromtimestamp(): raises past datetime.max.  (The lower limit,
\* year MINYEAR, is out of reach of the intervals of this model.)
fromtimestamp(ts) ==
    IF ts + UtcOffset > DatetimeMax THEN Raised ELSE Returned(ts + UtcOffset)

Digits == <<"0", "1", "2", "3", "4", "5", "6", "7", "8", "9">>

IsDigit(c) == \E i \in 1..10 : Digits[i] = c

DigitValue(c) == (CHOOSE i \in 1..10 : Digits[i] = c) - 1

RECURSIVE DigitsValue(_, _)
DigitsValue(s, acc) ==
    IF s = <<>> THEN acc ELSE DigitsValue(Tail(s), 10 * acc + DigitValue(Head(s)))

\* int(text): an optional sign and at least one digit, ValueError otherwise
\* (the blanks and underscores int() also accepts are in no text of the model)
int(text) ==
    LET signed == text # <<>> /\ Head(text) \in {"+", "-"}
        digits == IF signed THEN Tail(text) ELSE text
    IN  IF digits = <<>> \/ \E i \in 1..Len(digits) : ~IsDigit(digits[i])
        THEN Raised
        ELSE Returned(IF signed /\ Head(text) = "-"
                      THEN 0 - DigitsValue(digits, 0)
                      ELSE DigitsValue(digits, 0))

(***************************************************************************)
(* find_exiftool: the first candidate whose version query succeeds.        *)
(***************************************************************************)
Systems == {"Windows", "Darwin", "Linux"}

possible_paths(system) ==
    << "script_dir/exiftool", "script_dir/exiftool.exe", "exiftool",
       "/usr/bin/exiftool", "/usr/local/bin/exiftool" >>
    \o (IF system = "Windows"
        THEN << "script_dir/exiftool(-k).exe", "exiftool.exe" >>
        ELSE << >>)

\* the sets of candidates that answer the version query with exit code 0
Installations == { {}, {"exiftool", "/usr/bin/exiftool"}, {"exiftool.exe"} }

RECURSIVE FirstWorking(_, _)
FirstWorking(paths, working) ==
    IF paths = <<>> THEN None
    ELSE IF Head(paths) \in working THEN Head(paths)
    ELSE FirstWorking(Tail(paths), working)

find_exiftool(system, working) == FirstWorking(possible_paths(system), working)

\* init_ui: the full-mode button is enabled only when the tool was found
\* (preceded by the faulty variant that never disables it)
AlwaysEnabled(path) == TRUE

FullModeEnabled(path) == path # None

(***************************************************************************)
(* State.                                                                  *)
(***************************************************************************)
VARIABLES
    system,            \* platform.system()
    exiftool_path,     \* self.exiftool_path
    files,             \* self.files
    file_list,         \* the rows of self.file_list (their texts)
    date_edit,         \* text of self.date_edit
    time_edit,         \* text of self.time_edit
    interval_spinbox,  \* text of self.interval_spinbox
    sequential_cb,     \* self.sequential_cb.isChecked()
    simple_mode_btn,   \* self.simple_mode_btn.isChecked()
    full_mode_btn,     \* self.full_mode_btn.isChecked()
    last               \* what the most recent handler did: its locals, the
                       \* calls it made and the dialogs it raised

vars == << system, exiftool_path, files, file_list, date_edit, time_edit,
           interval_spinbox, sequential_cb, simple_mode_btn, full_mode_btn, last >>

(***************************************************************************)
(* The environment of one file: where its processing fails, if anywhere,   *)
(* and what the metadata tool writes to stderr when it is the one failing. *)
(***************************************************************************)
Diags == {"Error: File not found", "Warning: bad tag"}

Outcomes ==
    {[fail |-> f, stderr |-> ""] : f \in {"none", "utime", "ctime"}}
    \cup {[fail |-> "tool", stderr |-> d] : d \in Diags}

\* the outcomes that differ for the calls a run makes: the creation-time
\* command exists on two platforms, the tool runs in full mode only
OutcomesOf(sys, simple) ==
    {o \in Outcomes : /\ o.fail = "ctime" => sys \in {"Windows", "Darwin"}
                      /\ o.fail = "tool" => ~simple}

NoException == << >>

\* modify_file_dates: os.utime, then the creation-time command of the
\* platform; any exception is re-raised as "Error modifying file dates: ..."
modify_file_dates(file_path, dt, env) ==
    LET utime == [op |-> "os.utime", file |-> file_path, t |-> timestamp(dt),
                  ok |-> env.fail # "utime", stderr |-> ""]
        ctime(cmd) == [op |-> cmd, file |-> file_path, t |-> dt,
                       ok |-> env.fail # "ctime", stderr |-> ""]
        wrap(calls, cause) ==
            [calls |-> calls,
             raised |-> IF calls[Len(calls)].ok THEN NoException
                        ELSE <<"Error modifying file dates: ", cause>>]
    IN  IF ~utime.ok THEN wrap(<<utime>>, "OSError")
        ELSE IF system = "Windows"
             THEN wrap(<<utime, ctime("powershell")>>, "CalledProcessError")
        ELSE IF system = "Darwin"
             THEN wrap(<<utime, ctime("SetFile")>>, "CalledProcessError")
        ELSE wrap(<<utime>>, "OSError")

\* modify_metadata, preceded by the faulty variant that sets the filesystem
\* timestamps before it runs the tool
modify_metadata_dates_first(path, file_path, dt, env) ==
    LET tool == [op |-> "exiftool", file |-> file_path, t |-> dt,
                 ok |-> env.fail # "tool", stderr |-> env.stderr]
        r == modify_file_dates(file_path, dt, env)
    IN  IF path = None
        THEN [calls |-> << >>,
              raised |-> <<"ExifTool not found. Please install ExifTool first.">>]
        ELSE IF r.raised # NoException
        THEN [calls |-> r.calls, raised |-> <<"Error: ">> \o r.raised]
        ELSE IF ~tool.ok
        THEN [calls |-> r.calls \o <<tool>>,
              raised |-> <<"ExifTool error: ", tool.stderr>>]
        ELSE [calls |-> r.calls \o <<tool>>, raised |-> NoException]

modify_metadata(path, file_path, dt, env) ==
    LET tool == [op |-> "exiftool", file |-> file_path, t |-> dt,
                 ok |-> env.fail # "tool", stderr |-> env.stderr]
        r == modify_file_dates(file_path, dt, env)
    IN  IF path = None
        THEN [calls |-> << >>,
              raised |-> <<"ExifTool not found. Please install ExifTool first.">>]
        ELSE IF ~tool.ok
        THEN [calls |-> <<tool>>, raised |-> <<"ExifTool error: ", tool.stderr>>]
        ELSE IF r.raised # NoException
        THEN [calls |-> <<tool>> \o r.calls, raised |-> <<"Error: ">> \o r.raised]
        ELSE [calls |-> <<tool>> \o r.calls, raised |-> NoException]

(***************************************************************************)
(* process_files.                                                          *)
(***************************************************************************)
\* the sort key of process_files, preceded by the faulty variant that
\* forgets .lower()
RawBasename(p) == basename(p)

SortKey(p) == lower(basename(p))

\* list.sort(key=...) is stable: an element goes after every element whose
\* key is not greater than its own
RECURSIVE InsertByKey(_, _)
InsertByKey(s, p) ==
    IF s = <<>> THEN <<p>>
    ELSE IF StrLess(SortKey(p), SortKey(Head(s))) THEN <<p>> \o s
    ELSE <<Head(s)>> \o InsertByKey(Tail(s), p)

RECURSIVE SortedByKey(_)
SortedByKey(s) ==
    IF s = <<>> THEN <<>>
    ELSE InsertByKey(SortedByKey(SubSeq(s, 1, Len(s) - 1)), s[Len(s)])

\* working_files: a copy of self.files, sorted in sequential mode
WorkingFiles(fs, sequential) == IF sequential THEN SortedByKey(fs) ELSE fs

\* interval_seconds, preceded by the faulty variant that falls back to 0
IntervalOrZero(text) == IF int(text).ok THEN int(text).value ELSE 0

IntervalSeconds(text) ==
    IF int(text).ok THEN int(text).value ELSE DefaultInterval

\* current_dt of the file at 0-based position i
CurrentDt(sequential, base_datetime, i, interval_seconds) ==
    IF sequential
    THEN fromtimestamp(timestamp(base_datetime) + i * interval_seconds)
    ELSE Returned(base_datetime)

\* the try / except of the loop body, preceded by the faulty variant that
\* counts a failed file as processed
ProcessOneCountAll(run, file, dt, env) ==
    LET r == IF simple_mode_btn THEN modify_file_dates(file, dt, env)
             ELSE modify_metadata(exiftool_path, file, dt, env)
    IN  [run EXCEPT
            !.attempts = Append(@, [file |-> file, dt |-> dt]),
            !.calls = @ \o r.calls,
            !.processed_files = @ + 1,
            !.errors = IF r.raised = NoException THEN @
                       ELSE Append(@, [file |-> basename(file), msg |-> r.raised])]

ProcessOne(run, file, dt, env) ==
    LET r == IF simple_mode_btn THEN modify_file_dates(file, dt, env)
             ELSE modify_metadata(exiftool_path, file, dt, env)
    IN  [run EXCEPT
            !.attempts = Append(@, [file |-> file, dt |-> dt]),
            !.calls = @ \o r.calls,
            !.processed_files = IF r.raised = NoException THEN @ + 1 ELSE @,
            !.errors = IF r.raised = NoException THEN @
                       ELSE Append(@, [file |-> basename(file), msg |-> r.raised])]

\* for i, file in enumerate(working_files): an exception of the computation
\* of current_dt is not caught by the try of the loop body and ends the loop
RECURSIVE BatchLoop(_, _, _)
BatchLoop(run, i, envs) ==
    IF i >= Len(run.working_files) THEN run
    ELSE LET t == CurrentDt(sequential_cb, run.base_datetime, i,
                            run.interval_seconds)
         IN  IF ~t.ok THEN [run EXCEPT !.escaped = TRUE]
             ELSE BatchLoop(ProcessOne(run, run.working_files[i + 1], t.value,
                                       envs[i + 1]),
                            i + 1, envs)

\* QMessageBox.warning / critical / information
Dialog(kind, title, text) ==
    [kind |-> kind, title |-> title, text |-> text,
     processed |-> 0, total |-> 0, errors |-> << >>]

\* "Show results": the dialog that ends a run
ShowResults(run) ==
    IF run.errors # << >>
    THEN [kind |-> "warning", title |-> "Partial Success",
          text |-> "Processed {} out of {} files. Errors: {}",
          processed |-> run.processed_files, total |-> run.total_files,
          errors |-> run.errors]
    ELSE [kind |-> "information", title |-> "Success",
          text |-> "Successfully processed all {} files!",
          processed |-> 0, total |-> run.total_files, errors |-> << >>]

\* the two handlers of the outer try, by the exception that escaped the loop
\* (datetime.fromtimestamp raises ValueError or, further out, OSError)
ExceptionTypes == {"ValueError", "OSError"}

OuterExcept(exc) ==
    IF exc = "ValueError"
    THEN Dialog("critical", "Error", "Invalid date/time format: {}")
    ELSE Dialog("critical", "Error", "An error occurred: {}")

\* self.clear_files() at the end of a run, preceded by the faulty variant
\* that keeps the list when some file failed
ClearOnFullSuccess(st, run) == IF run.errors = << >> THEN clear_files(st) ELSE st

ListAfterRun(st, run) == clear_files(st)

NoRun ==
    [working_files |-> << >>, base_datetime |-> 0, interval_seconds |-> 0,
     total_files |-> 0, processed_files |-> 0, errors |-> << >>,
     attempts |-> << >>, calls |-> << >>, escaped |-> FALSE]

\* the record of a handler: started tells that process_files got past its
\* validation and entered the batch
Handled(handler, dialogs, pre_files, selected, started, run) ==
    [handler |-> handler, dialogs |-> dialogs, pre_files |-> pre_files,
     selected |-> selected, started |-> started, run |-> run]

Idle == Handled("other", << >>, << >>, {}, FALSE, NoRun)

\* the record of select_files and dropEvent
Added(handler, pre_files) == Handled(handler, << >>, pre_files, {}, FALSE, NoRun)

\* the locals of process_files when the loop ends
RunOf(envs) ==
    LET working_files == WorkingFiles(files, sequential_cb)
    IN  BatchLoop([NoRun EXCEPT
                      !.working_files = working_files,
                      !.base_datetime = strptime(date_edit, time_edit).value,
                      !.interval_seconds =
                          IF sequential_cb THEN IntervalSeconds(interval_spinbox)
                          ELSE 0,
                      !.total_files = Len(working_files)],
                  0, envs)

\* the warning of the inner except ValueError
IntervalWarning ==
    IF sequential_cb /\ ~int(interval_spinbox).ok
    THEN << Dialog("warning", "Warning", "Invalid interval value. Using 60 seconds.") >>
    ELSE << >>

(***************************************************************************)
(* The handlers.                                                           *)
(***************************************************************************)
Init ==
    /\ system \in Systems
    /\ \E working \in Installations : exiftool_path = find_exiftool(system, working)
    /\ files = << >>
    /\ file_list = << >>
    /\ date_edit \in ValidDateTexts
    /\ time_edit \in ValidTimeTexts
    /\ interval_spinbox = <<"6", "0">>
    /\ sequential_cb = FALSE
    /\ simple_mode_btn = TRUE
    /\ full_mode_btn = FALSE
    /\ last = Idle

select_files ==
    \E new \in DialogResults :
        LET st == SelectLoop([files |-> files, file_list |-> file_list], new)
        IN  /\ files' = st.files
            /\ file_list' = st.file_list
            /\ last' = Added("select_files", files)
            /\ UNCHANGED << system, exiftool_path, date_edit, time_edit,
                            interval_spinbox, sequential_cb, simple_mode_btn,
                            full_mode_btn >>

dropEvent ==
    \E urls \in DropUrls :
        LET st == DropLoop([files |-> files, file_list |-> file_list], urls)
        IN  /\ files' = st.files
            /\ file_list' = st.file_list
            /\ last' = Added("dropEvent", files)
            /\ UNCHANGED << system, exiftool_path, date_edit, time_edit,
                            interval_spinbox, sequential_cb, simple_mode_btn,
                            full_mode_btn >>

\* the orders in which selectedItems() can list the selected rows
Orderings(S) ==
    {o \in [1..Cardinality(S) -> S] : \A i, j \in 1..Cardinality(S) : i # j => o[i] # o[j]}

remove_selected ==
    \E selected \in SUBSET (1..Len(file_list)) :
        \E selected_items \in Orderings(selected) :
            LET st == RemoveLoop([items |-> [i \in 1..Len(file_list) |-> i],
                                  file_list |-> file_list, files |-> files],
                                 selected_items)
            IN  /\ files' = st.files
                /\ file_list' = st.file_list
                /\ last' = Handled("remove_selected", << >>, files, selected,
                                   FALSE, NoRun)
                /\ UNCHANGED << system, exiftool_path, date_edit, time_edit,
                                interval_spinbox, sequential_cb, simple_mode_btn,
                                full_mode_btn >>

clear_btn_clicked ==
    LET st == clear_files([files |-> files, file_list |-> file_list])
    IN  /\ files' = st.files
        /\ file_list' = st.file_list
        /\ last' = Idle
        /\ UNCHANGED << system, exiftool_path, date_edit, time_edit,
                        interval_spinbox, sequential_cb, simple_mode_btn,
                        full_mode_btn >>

\* a click reaches a button only when it is enabled
mode_button_clicked(mode) ==
    /\ mode = "full" => FullModeEnabled(exiftool_path)
    /\ simple_mode_btn' = (mode = "simple")
    /\ full_mode_btn' = (mode # "simple")
    /\ last' = Idle
    /\ UNCHANGED << system, exiftool_path, files, file_list, date_edit, time_edit,
                    interval_spinbox, sequential_cb >>

simple_mode_btn_clicked == mode_button_clicked("simple")

full_mode_btn_clicked == mode_button_clicked("full")

sequential_cb_clicked ==
    /\ sequential_cb' = ~sequential_cb
    /\ last' = Idle
    /\ UNCHANGED << system, exiftool_path, files, file_list, date_edit, time_edit,
                    interval_spinbox, simple_mode_btn, full_mode_btn >>

set_current_datetime ==
    /\ date_edit' \in ValidDateTexts
    /\ time_edit' \in ValidTimeTexts
    /\ last' = Idle
    /\ UNCHANGED << system, exiftool_path, files, file_list, interval_spinbox,
                    sequential_cb, simple_mode_btn, full_mode_btn >>

\* the user types into one of the three text fields
date_edit_edited ==
    /\ date_edit' \in DateTexts
    /\ last' = Idle
    /\ UNCHANGED << system, exiftool_path, files, file_list, time_edit,
                    interval_spinbox, sequential_cb, simple_mode_btn, full_mode_btn >>

time_edit_edited ==
    /\ time_edit' \in TimeTexts
    /\ last' = Idle
    /\ UNCHANGED << system, exiftool_path, files, file_list, date_edit,
                    interval_spinbox, sequential_cb, simple_mode_btn, full_mode_btn >>

interval_spinbox_edited ==
    /\ interval_spinbox' \in IntervalTexts
    /\ last' = Idle
    /\ UNCHANGED << system, exiftool_path, files, file_list, date_edit, time_edit,
                    sequential_cb, simple_mode_btn, full_mode_btn >>

process_files ==
    \E envs \in [1..Len(files) -> OutcomesOf(system, simple_mode_btn)] :
        LET st == [files |-> files, file_list |-> file_list]
            run == RunOf(envs)
            after == ListAfterRun(st, run)
        IN  /\ IF files = << >>
               THEN /\ last' = Handled("process_files",
                                       << Dialog("warning", "Warning",
                                                 "No files to process.") >>,
                                       files, {}, FALSE, NoRun)
                    /\ UNCHANGED << files, file_list >>
               ELSE IF ~strptime(date_edit, time_edit).ok
               THEN /\ last' = Handled("process_files", << OuterExcept("ValueError") >>,
                                       files, {}, FALSE, NoRun)
                    /\ UNCHANGED << files, file_list >>
               ELSE IF run.escaped
               THEN /\ \E exc \in ExceptionTypes :
                           last' = Handled("process_files",
                                           IntervalWarning \o << OuterExcept(exc) >>,
                                           files, {}, TRUE, run)
                    /\ UNCHANGED << files, file_list >>
               ELSE /\ last' = Handled("process_files",
                                       IntervalWarning \o << ShowResults(run) >>,
                                       files, {}, TRUE, run)
                    /\ files' = after.files
                    /\ file_list' = after.file_list
            /\ UNCHANGED << system, exiftool_path, date_edit, time_edit,
                            interval_spinbox, sequential_cb, simple_mode_btn,
                            full_mode_btn >>

\* a direct call of modify_metadata on one file, as a caller that forces
\* full mode would make it
modify_metadata_called ==
    \E file_path \in Paths, env \in OutcomesOf(system, FALSE) :
        LET dt == strptime(CHOOSE d \in ValidDateTexts : TRUE,
                           CHOOSE t \in ValidTimeTexts : TRUE).value
            r == modify_metadata(exiftool_path, file_path, dt, env)
        IN  /\ last' = Handled("modify_metadata", << >>, files, {}, FALSE,
                               [NoRun EXCEPT
                                   !.attempts = << [file |-> file_path, dt |-> dt] >>,
                                   !.calls = r.calls,
                                   !.errors =
                                       IF r.raised = NoException THEN << >>
                                       ELSE << [file |-> basename(file_path),
                                                msg |-> r.raised] >>])
            /\ UNCHANGED << system, exiftool_path, files, file_list, date_edit,
                            time_edit, interval_spinbox, sequential_cb,
                            simple_mode_btn, full_mode_btn >>

Next ==
    \/ select_files
    \/ dropEvent
    \/ remove_selected
    \/ clear_btn_clicked
    \/ simple_mode_btn_clicked
    \/ full_mode_btn_clicked
    \/ sequential_cb_clicked
    \/ set_current_datetime
    \/ date_edit_edited
    \/ time_edit_edited
    \/ interval_spinbox_edited
    \/ process_files

\* the program driven through its user interface
Spec == Init /\ [][Next]_vars

\* the handlers that can reach the lists, the toggles and the batch, leaving
\* the three text fields as they start, and modify_metadata also called
\* directly
NextCalls ==
    \/ select_files
    \/ dropEvent
    \/ remove_selected
    \/ clear_btn_clicked
    \/ simple_mode_btn_clicked
    \/ full_mode_btn_clicked
    \/ sequential_cb_clicked
    \/ process_files
    \/ modify_metadata_called

SpecCalls == Init /\ [][NextCalls]_vars

(***************************************************************************)
(* Properties.                                                             *)
(***************************************************************************)
IsRun == last.handler = "process_files"

\* the run got past the validation of its inputs and entered the batch
Started == IsRun /\ last.started

\* the run reached its results dialog
Completed == Started /\ ~last.run.escaped

NoRepeat(s) == \A i, j \in 1..Len(s) : i # j => s[i] # s[j]

\* the k-th smallest element of a set of numbers, k from 1
Nth(S, k) == CHOOSE i \in S : Cardinality({j \in S : j < i}) = k - 1

\* the elements of s at the indices of K, in the order of s
Keep(s, K) == [k \in 1..Cardinality(K) |-> s[Nth(K, k)]]

\* C1: self.files never holds the same path twice, and select_files and
\* dropEvent only append to it, and only paths it did not hold: with nothing
\* new offered, the list is left as it was.
C1_NoDuplicatePaths ==
    /\ NoRepeat(files)
    /\ last.handler \in {"select_files", "dropEvent"} =>
          /\ Len(files) >= Len(last.pre_files)
          /\ SubSeq(files, 1, Len(last.pre_files)) = last.pre_files
          /\ \A i \in (Len(last.pre_files) + 1)..Len(files) :
                 files[i] \notin SeqRange(last.pre_files)

\* a file dialog that returned only paths already in the list left it unchanged
C1_Witness ==
    /\ last.handler = "select_files"
    /\ files = last.pre_files
    /\ Len(files) >= 2

T == last.run.base_datetime
W == last.run.working_files

\* the sort key the claims name: the lowercased base file name
NameKey(p) == lower(basename(p))

\* the position in W (from 0) of a file
PositionOf(f) == (CHOOSE k \in 1..Len(W) : W[k] = f) - 1

\* the calls a run made on one file, in the order it made them
CallsOn(f) == SelectSeq(last.run.calls, LAMBDA c : c.file = f)

\* T + k * I is a datetime (it is not past datetime.max)
Representable(dt) == dt <= DatetimeMax

C3_InvalidDateAborts ==
    (IsRun /\ (date_edit \notin ValidDateTexts \/ time_edit \notin ValidTimeTexts)) =>
        /\ ~last.started
        /\ last.run.attempts = << >>
        /\ last.run.calls = << >>
        /\ files = last.pre_files
        /\ Len(last.dialogs) = 1
        /\ last.pre_files # << >> =>
              /\ last.dialogs[1].kind = "critical"
              /\ last.dialogs[1].text = "Invalid date/time format: {}"

\* a run on a list of two files with the date text 9999-02-30
C3_Witness ==
    /\ IsRun
    /\ date_edit = <<9999, 2, 30>>
    /\ Len(last.pre_files) = 2
    /\ files = last.pre_files

\* C4: every file of the working list is attempted exactly once, in working
\* order, in every run that entered the batch.
C4_EveryFileAttempted ==
    Started =>
        /\ Len(last.run.attempts) = Len(W)
        /\ \A k \in 1..Len(W) : last.run.attempts[k].file = W[k]

\* C5: after a run that reached its results dialog, with or without failed
\* files, the list and its display are empty.
C5_ListEmptyAfterRun ==
    Completed => files = << >> /\ file_list = << >>

\* a run of two files, one of them failed, and nothing is kept
C5_Witness ==
    /\ Completed
    /\ Len(last.pre_files) = 2
    /\ Len(last.run.errors) = 1
    /\ files = << >>

\* C6: without the tool, the full-mode button is never checked (the simple
\* one always is), no run calls the tool, and modify_metadata called on a
\* file raises the "ExifTool not found" error and makes no call at all.
C6_FullModeUnavailable ==
    exiftool_path = None =>
        /\ ~full_mode_btn
        /\ simple_mode_btn
        /\ \A n \in 1..Len(last.run.calls) : last.run.calls[n].op # "exiftool"
        /\ last.handler = "modify_metadata" =>
              /\ last.run.calls = << >>
              /\ Len(last.run.errors) = 1
              /\ last.run.errors[1].msg =
                     <<"ExifTool not found. Please install ExifTool first.">>

\* modify_metadata was called although no tool was found
C6_Witness ==
    /\ exiftool_path = None
    /\ last.handler = "modify_metadata"
    /\ Len(last.run.errors) = 1

\* the positions (from 1) of the working files on which some call failed
FailedPositions ==
    {k \in 1..Len(W) : \E n \in 1..Len(last.run.calls) :
                           /\ last.run.calls[n].file = W[k]
                           /\ ~last.run.calls[n].ok}

\* C7: when a run reaches its results dialog, succeeded + errors = total =
\* the length of the list; there is one error message per failed file, in
\* processing order, naming the file; the dialog is the success dialog
\* exactly when there is no error, and else the partial-success dialog with
\* the two counts and all the messages.
C7_RunResult ==
    Completed =>
        LET run == last.run
            d == last.dialogs[Len(last.dialogs)]
        IN  /\ run.total_files = Len(last.pre_files)
            /\ run.processed_files + Len(run.errors) = run.total_files
            /\ Len(run.errors) = Cardinality(FailedPositions)
            /\ \A j \in 1..Len(run.errors) :
                   run.errors[j].file = basename(W[Nth(FailedPositions, j)])
            /\ (d.title = "Success") = (run.errors = << >>)
            /\ d.title \in {"Success", "Partial Success"}
            /\ d.total = run.total_files
            /\ d.title = "Partial Success" =>
                   /\ d.errors = run.errors
                   /\ d.processed = run.total_files - Cardinality(FailedPositions)

\* a run of two files: the first failed, the second succeeded
C7_Witness ==
    /\ Completed
    /\ FailedPositions = {1}
    /\ last.run.processed_files = 1
    /\ last.dialogs[Len(last.dialogs)].title = "Partial Success"

\* C8: in a full-mode run, the first call on each attempted file is the
\* tool; when it succeeds os.utime follows it, when it fails no other call
\* is made on the file and an error names the file and carries the tool's
\* stderr.
C8_ToolBeforeDates ==
    (Started /\ ~simple_mode_btn) =>
        \A k \in 1..Len(last.run.attempts) :
            LET f == last.run.attempts[k].file
                calls == CallsOn(f)
            IN  /\ calls # << >>
                /\ calls[1].op = "exiftool"
                /\ \A n \in 2..Len(calls) : calls[n].op # "exiftool"
                /\ calls[1].ok => Len(calls) >= 2 /\ calls[2].op = "os.utime"
                /\ ~calls[1].ok =>
                      /\ Len(calls) = 1
                      /\ \E j \in 1..Len(last.run.errors) :
                            last.run.errors[j] =
                                [file |-> basename(f),
                                 msg |-> <<"ExifTool error: ", calls[1].stderr>>]

\* a full-mode run where the tool failed on the first file and succeeded on
\* the second
C8_Witness ==
    /\ Completed
    /\ ~simple_mode_btn
    /\ Len(W) >= 2
    /\ Len(CallsOn(W[1])) = 1
    /\ ~CallsOn(W[1])[1].ok
    /\ Len(CallsOn(W[2])) >= 2
    /\ CallsOn(W[2])[1].ok

\* a sequential run on a non-empty list, with a date and a time that parse
\* and an interval text that is not an integer
BadIntervalRun ==
    /\ IsRun
    /\ last.pre_files # << >>
    /\ sequential_cb
    /\ date_edit \in ValidDateTexts
    /\ time_edit \in ValidTimeTexts
    /\ interval_spinbox \notin IntegerIntervalTexts

=============================================================================
